---------------------------- MODULE Spec2Model ----------------------------
(*************************************************************************)
(* Context-free grammars (src/src/cfg.rs): the grammar value, its four   *)
(* simplification passes and their composition, and the bounded lazy     *)
(* derivation generator (src/src/generator.rs).                          *)
(*                                                                       *)
(* A Nonterminal or Terminal is modelled by its character.  Characters   *)
(* outside ASCII are written by their names ("Ya" for the last letter of *)
(* ALPHA).  A Symbol is a tagged character, a Production a record of a   *)
(* left character and a right sequence of symbols, a CFG a record of     *)
(* start, productions and the cached variables.                          *)
(*************************************************************************)
EXTENDS Naturals, Sequences, FiniteSets, TLC

VARIABLES cfg, input, ops, pc, simplified, left, rules, queue, min_len, max_len,
          ret, yielded

vars == <<cfg, input, ops, pc, simplified, left, rules, queue, min_len, max_len,
          ret, yielded>>

-----------------------------------------------------------------------------
(* Bounds of the model *)

\* productions of an input grammar
MaxProds == 3
\* productions of a grammar handed to Generator::new
MaxGenProds == 2
\* calls of a pass (or of simplify) made in a row on a grammar value
MaxCalls == 2
\* largest max_len handed to Generator::new
MaxLen == 3
\* largest min_len handed to Generator::new
MaxMin == 2
\* length of the terminal strings whose derivability is compared
MaxWord == 3

-----------------------------------------------------------------------------
(* Symbols, productions, grammars *)

\* const ALPHA: the 26 Latin, 9 Greek and 16 Cyrillic capital letters, in order
ALPHA ==
  << "A", "B", "C", "D", "E", "F", "G", "H", "I", "J", "K", "L", "M",
     "N", "O", "P", "Q", "R", "S", "T", "U", "V", "W", "X", "Y", "Z",
     "Gamma", "Delta", "Theta", "Lambda", "Xi", "Sigma", "Phi", "Psi", "Omega",
     "Be", "De", "Yo", "Zhe", "Ze", "Ii", "Iy", "Pe", "Tse", "Che", "Sha",
     "Shcha", "Yery", "Ee", "Yu", "Ya" >>

\* Symbol::N(Nonterminal { symbol: c })
N(c) == [tag |-> "N", symbol |-> c]

\* Symbol::T(Terminal { symbol: c })
T(c) == [tag |-> "T", symbol |-> c]

is_nonterminal(x) == x.tag = "N"

is_terminal(x) == ~is_nonterminal(x)

\* Production::new
Production(l, r) == [left |-> l, right |-> r]

\* the nonterminals of a right-hand side (the right_nonterm_set of the passes)
right_nonterm_set(right) ==
  {right[i].symbol : i \in {j \in 1..Len(right) : is_nonterminal(right[j])}}

\* CFG::update_variables: every left and every nonterminal of a right
update_variables(productions) ==
  UNION {{rule.left} \cup right_nonterm_set(rule.right) : rule \in productions}

\* CFG::new
CFG_new(start, prods) ==
  [start |-> start, productions |-> prods, variables |-> update_variables(prods)]

\* CFG::get_new_start: the last letter of ALPHA that is no variable (the
\* letters kept in ALPHA's order, then pop); the call panics when none is free
get_new_start(variables) ==
  LET free_variables == SelectSeq(ALPHA, LAMBDA x : x \notin variables)
  IN  free_variables[Len(free_variables)]

-----------------------------------------------------------------------------
(* remove_epsilon_rules *)

\* the fold of lines 255-261: every symbol of the right is a nullable
\* nonterminal (true of the empty right)
all_nullable(right, nullable) ==
  \A i \in 1..Len(right) : is_nonterminal(right[i]) /\ right[i].symbol \in nullable

RECURSIVE nullable_from(_, _)
\* the while-changed loop of lines 246-267, from the set found so far
nullable_from(productions, nullable) ==
  LET next == nullable \cup
                {rule.left : rule \in {r \in productions :
                                          r.right = <<>> \/ all_nullable(r.right, nullable)}}
  IN  IF next = nullable THEN nullable ELSE nullable_from(productions, next)

\* new.right.remove(idx), with idx counted from 1
remove_idx(right, idx) ==
  [i \in 1..(Len(right) - 1) |-> IF i < idx THEN right[i] ELSE right[i + 1]]

\* a filter that keeps every variant
variant_kept_any(new) == TRUE

\* lines 283-286: a variant is inserted unless it is empty or the loop A -> A
variant_kept(new) ==
  /\ new.right # <<>>
  /\ ~(Len(new.right) = 1 /\ is_nonterminal(new.right[1])
       /\ new.right[1].symbol = new.left)

\* lines 276-294: for every nullable nonterminal and every production, one
\* variant per occurrence, with that one occurrence removed
epsilon_variants(productions, nullable) ==
  {new \in UNION {{Production(rule.left, remove_idx(rule.right, idx)) :
                     idx \in {i \in 1..Len(rule.right) :
                                /\ is_nonterminal(rule.right[i])
                                /\ rule.right[i].symbol \in nullable}} :
                  rule \in productions} :
     variant_kept(new)}

\* the productions with an empty right
epsilon_rules(g) == {rule \in g.productions : rule.right = <<>>}

\* The loop of lines 269-275 assigns start_hash_epsilon at every production
\* with an empty right, so the flag is decided by the one the HashSet
\* iterates last: any of them.  NoRule stands for "there is none".
NoRule == Production("", <<>>)

last_epsilon_choices(g) ==
  IF epsilon_rules(g) = {} THEN {NoRule} ELSE epsilon_rules(g)

start_hash_epsilon(g, last) == last \in epsilon_rules(g) /\ last.left = g.start

\* CFG::remove_epsilon_rules, last being the empty production iterated last
remove_epsilon_rules(g, last) ==
  LET nullable == nullable_from(g.productions, {})
      new_rules == {rule \in g.productions : rule.right # <<>>}
                      \cup epsilon_variants(g.productions, nullable)
  IN  IF g.start \in nullable /\ start_hash_epsilon(g, last)
      THEN LET new_start == get_new_start(g.variables)
           IN  CFG_new(new_start,
                       new_rules \cup {Production(new_start, <<>>),
                                       Production(new_start, <<N(g.start)>>)})
      ELSE CFG_new(g.start, new_rules)

-----------------------------------------------------------------------------
(* remove_unit_rules *)

\* rule.right.len() == 1 && rule.right[0].is_nonterminal()
is_unit(rule) == Len(rule.right) = 1 /\ is_nonterminal(rule.right[1])

\* lines 308-332: the set starts as {nonterm}; the loop adds the right of
\* every unit production whose left is nonterm itself (nothing else, so a
\* second pass adds nothing); nonterm is removed at the end
unit_set(g, nonterm) ==
  ({nonterm} \cup {rule.right[1].symbol :
                     rule \in {r \in g.productions : is_unit(r) /\ r.left = nonterm}})
    \ {nonterm}

\* an import that copies every production of the right, unit ones too
unit_imports_all(g, rule) ==
  IF rule.right[1].symbol \in unit_set(g, rule.left)
  THEN {Production(rule.left, r.right) :
          r \in {p \in g.productions : p.left = rule.right[1].symbol}}
  ELSE {}

\* an import that leaves a unit production outside the unit set (A -> A) in
\* place
unit_imports_keep_loop(g, rule) ==
  IF rule.right[1].symbol \in unit_set(g, rule.left)
  THEN {Production(rule.left, r.right) :
          r \in {p \in g.productions :
                   /\ p.left = rule.right[1].symbol
                   /\ (Len(p.right) # 1 \/ is_terminal(p.right[1]))}}
  ELSE {rule}

\* lines 336-343: for a unit production whose right is in the unit set of
\* its left, the productions of the right that are not unit, under the left
unit_imports(g, rule) ==
  IF rule.right[1].symbol \in unit_set(g, rule.left)
  THEN {Production(rule.left, r.right) :
          r \in {p \in g.productions :
                   /\ p.left = rule.right[1].symbol
                   /\ (Len(p.right) # 1 \/ is_terminal(p.right[1]))}}
  ELSE {}

\* CFG::remove_unit_rules
remove_unit_rules(g) ==
  CFG_new(g.start,
          {rule \in g.productions : ~is_unit(rule)}
            \cup UNION {unit_imports(g, rule) :
                          rule \in {r \in g.productions : is_unit(r)}})

-----------------------------------------------------------------------------
(* remove_useless_rules *)

RECURSIVE usefull_from(_, _)
\* the while-changed loop of lines 354-380: a production with an empty
\* right is skipped
usefull_from(productions, usefull_nonterminals) ==
  LET next == usefull_nonterminals \cup
                {rule.left : rule \in {r \in productions :
                    /\ r.right # <<>>
                    /\ right_nonterm_set(r.right) \subseteq usefull_nonterminals}}
  IN  IF next = usefull_nonterminals
      THEN usefull_nonterminals
      ELSE usefull_from(productions, next)

\* a filter that tests only the left of a production
remove_useless_rules_left_only(g) ==
  LET usefull_nonterminals == usefull_from(g.productions, {})
  IN  CFG_new(g.start,
              {rule \in g.productions : rule.left \in usefull_nonterminals})

\* CFG::remove_useless_rules
remove_useless_rules(g) ==
  LET usefull_nonterminals == usefull_from(g.productions, {})
  IN  CFG_new(g.start,
              {rule \in g.productions :
                 /\ rule.left \in usefull_nonterminals
                 /\ right_nonterm_set(rule.right) \subseteq usefull_nonterminals})

-----------------------------------------------------------------------------
(* remove_unreachable_rules *)

\* the symbols of a right, as a set
right_set(right) == {right[i] : i \in 1..Len(right)}

RECURSIVE reachable_from(_, _)
\* the while-changed loop of lines 403-415
reachable_from(productions, reachable_symbols) ==
  LET next == reachable_symbols \cup
                UNION {right_set(rule.right) :
                         rule \in {r \in productions : N(r.left) \in reachable_symbols}}
  IN  IF next = reachable_symbols
      THEN reachable_symbols
      ELSE reachable_from(productions, next)

\* CFG::remove_unreachable_rules
remove_unreachable_rules(g) ==
  LET reachable_symbols == reachable_from(g.productions, {N(g.start)})
  IN  CFG_new(g.start,
              {rule \in g.productions :
                 right_set(rule.right) \cup {N(rule.left)} \subseteq reachable_symbols})

\* CFG::simplify, last being the empty production its first pass iterates last
simplify(g, last) ==
  remove_unreachable_rules(remove_useless_rules(remove_unit_rules(
    remove_epsilon_rules(g, last))))

-----------------------------------------------------------------------------
(* The grammars the model starts from *)

\* The productions an input grammar is drawn from: empty, terminal, unit
\* (the chain S -> A -> B and the loop A -> A), recursive and ambiguous
\* ones, and one with two occurrences of the same nonterminal
ProdPool ==
  { Production("S", <<>>),
    Production("S", <<T("a")>>),
    Production("S", <<T("a"), N("S")>>),
    Production("S", <<N("A")>>),
    Production("S", <<N("A"), N("B")>>),
    Production("S", <<N("A"), T("a"), N("A")>>),
    Production("S", <<N("S"), N("S")>>),
    Production("A", <<>>),
    Production("A", <<T("a")>>),
    Production("A", <<N("B")>>),
    Production("A", <<N("A")>>),
    Production("B", <<>>),
    Production("B", <<T("b")>>) }

\* CFG::parse_from_reader: at least one rule, the start is the left of one
\* of them (the first of the text)
InputGrammars(max) ==
  UNION {{CFG_new(start, prods) : start \in {rule.left : rule \in prods}} :
           prods \in {P \in SUBSET ProdPool : Cardinality(P) \in 1..max}}

\* Option::None, and Some(x), of Generator::next
None == [some |-> FALSE]

Some(x) == [some |-> TRUE, item |-> x]

\* no grammar was simplified yet
NoCFG == CFG_new("", {})

-----------------------------------------------------------------------------
(* The passes applied to a grammar value *)

\* a call on the grammar value cfg that returns result
Call(name, result) ==
  /\ pc = "cfg"
  /\ Len(ops) < MaxCalls
  /\ cfg' = result
  /\ input' = cfg
  /\ ops' = Append(ops, name)
  /\ UNCHANGED <<pc, simplified, left, rules, queue, min_len, max_len, ret, yielded>>

RemoveEpsilonRules ==
  \E last \in last_epsilon_choices(cfg) :
    Call("remove_epsilon_rules", remove_epsilon_rules(cfg, last))

RemoveUnitRules == Call("remove_unit_rules", remove_unit_rules(cfg))

RemoveUselessRules == Call("remove_useless_rules", remove_useless_rules(cfg))

RemoveUnreachableRules ==
  Call("remove_unreachable_rules", remove_unreachable_rules(cfg))

Simplify ==
  \E last \in last_epsilon_choices(cfg) : Call("simplify", simplify(cfg, last))

\* a grammar value of grammars, no call made on it yet and no generator
InitOf(grammars) ==
  /\ cfg \in grammars
  /\ input = cfg
  /\ ops = <<>>
  /\ pc = "cfg"
  /\ simplified = NoCFG
  /\ left = FALSE
  /\ rules = <<>>
  /\ queue = <<>>
  /\ min_len = 0
  /\ max_len = 0
  /\ ret = None
  /\ yielded = {}

Init == InitOf(InputGrammars(MaxProds))

Next ==
  \/ RemoveEpsilonRules
  \/ RemoveUnitRules
  \/ RemoveUselessRules
  \/ RemoveUnreachableRules
  \/ Simplify

Spec == Init /\ [][Next]_vars

\* the operation last applied to the grammar value
last_op == IF ops = <<>> THEN "new" ELSE ops[Len(ops)]

-----------------------------------------------------------------------------
(* Generator (src/src/generator.rs) *)

\* the orders in which a HashSet may iterate the elements of S
Orders(S) ==
  {f \in [1..Cardinality(S) -> S] : \A x \in S : \E i \in DOMAIN f : f[i] = x}

RECURSIVE rule_indexes(_, _)
\* lines 32-40: the index maps Symbol::N(left) to the right-hand sides of
\* left, in the order the HashSet of productions hands them out: any order
rule_indexes(productions, lefts) ==
  IF lefts = {}
  THEN {<<>>}
  ELSE LET l == CHOOSE x \in lefts : TRUE
       IN  {(N(l) :> cases) @@ rest :
              cases \in Orders({rule.right : rule \in {r \in productions : r.left = l}}),
              rest \in rule_indexes(productions, lefts \ {l})}

\* line 42: the worklist is seeded from grammar.start, the start symbol of
\* the grammar handed to Generator::new
seed_start(grammar, simple) == grammar.start

\* Generator::new(grammar, lmin, lmax, left)
GeneratorNew ==
  /\ pc = "cfg"
  /\ ops = <<>>
  /\ \E lmin \in 0..MaxMin, lmax \in 0..MaxLen, l \in BOOLEAN,
        last \in last_epsilon_choices(cfg) :
       LET simple == simplify(cfg, last)
       IN  \E index \in rule_indexes(simple.productions,
                                     {rule.left : rule \in simple.productions}) :
             /\ simplified' = simple
             /\ rules' = index
             /\ queue' = IF N(seed_start(cfg, simple)) \in DOMAIN index
                         THEN index[N(seed_start(cfg, simple))]
                         ELSE <<>>
             /\ left' = l
             /\ min_len' = lmin
             /\ max_len' = lmax
  /\ pc' = "ready"
  /\ UNCHANGED <<cfg, input, ops, ret, yielded>>

\* an index that, for the rightmost nonterminal, counts from the end of the
\* form (iter().rev().position())
expansion_idx_from_end(item, l) ==
  LET at == {i \in 1..Len(item) : is_nonterminal(item[i])}
  IN  IF l
      THEN CHOOSE i \in at : \A j \in at : i <= j
      ELSE Len(item) + 1 - (CHOOSE i \in at : \A j \in at : j <= i)

\* lines 78-82: position() or rposition() of the nonterminals
expansion_idx(item, l) ==
  LET at == {i \in 1..Len(item) : is_nonterminal(item[i])}
  IN  IF l
      THEN CHOOSE i \in at : \A j \in at : i <= j
      ELSE CHOOSE i \in at : \A j \in at : j <= i

\* lines 84-91: next_item with seq in the place of its symbol at idx
splice(item, idx, seq) ==
  SubSeq(item, 1, idx - 1) \o seq \o SubSeq(item, idx + 1, Len(item))

\* the forms pushed for next_item, one per alternative, in the index's order
expansions(item, idx, cases) ==
  [k \in 1..Len(cases) |-> splice(item, idx, cases[k])]

\* a length test that accepts every terminal form
long_enough_any(item, lmin) == TRUE

\* line 71
long_enough(item, lmin) == Len(item) >= lmin

\* the return of Generator::next
Return(r) ==
  /\ pc' = "returned"
  /\ ret' = r
  /\ yielded' = IF r.some THEN yielded \cup {r.item} ELSE yielded

\* the loop of Generator::next goes on
Continue == pc' = "loop" /\ UNCHANGED <<ret, yielded>>

\* Generator::next, one turn of its while-let loop at a time: a call starts
\* at "ready" or "returned" and is inside the loop at "loop"
GeneratorNext ==
  /\ pc \in {"ready", "returned", "loop"}
  /\ IF queue = <<>>
     THEN Return(None) /\ UNCHANGED queue
     ELSE LET next_item == Head(queue)
              popped == Tail(queue)
          IN  IF next_item = <<>>
              THEN Return(Some(next_item)) /\ queue' = popped
              ELSE IF Len(next_item) > max_len
              THEN Continue /\ queue' = popped
              ELSE IF \A i \in 1..Len(next_item) : is_terminal(next_item[i])
              THEN IF long_enough(next_item, min_len)
                   THEN Return(Some(next_item)) /\ queue' = popped
                   ELSE Continue /\ queue' = popped
              ELSE LET idx == expansion_idx(next_item, left)
                   IN  IF next_item[idx] \in DOMAIN rules
                       THEN /\ queue' = popped \o expansions(next_item, idx,
                                                             rules[next_item[idx]])
                            /\ Continue
                       ELSE \* unreachable!()
                            /\ pc' = "panic"
                            /\ queue' = popped
                            /\ UNCHANGED <<ret, yielded>>
  /\ UNCHANGED <<cfg, input, ops, simplified, left, rules, min_len, max_len>>

NextGen == GeneratorNew \/ GeneratorNext

InitGen == InitOf(InputGrammars(MaxGenProds))

SpecGen == InitGen /\ [][NextGen]_vars

\* the consumer of a generator keeps calling next, and a call that has
\* started runs on
FairSpecGen == SpecGen /\ WF_vars(GeneratorNext)

-----------------------------------------------------------------------------
(* Derivability of terminal strings, for the claims about the language *)

RECURSIVE expand(_, _)
\* the terminal strings of length <= MaxWord a right-hand side yields when
\* a nonterminal B yields the strings L[B]
expand(right, L) ==
  IF right = <<>>
  THEN {<<>>}
  ELSE LET first == IF is_terminal(Head(right))
                    THEN {<<Head(right).symbol>>}
                    ELSE L[Head(right).symbol]
       IN  {w \in {x \o y : x \in first, y \in expand(Tail(right), L)} :
              Len(w) <= MaxWord}

RECURSIVE derivable_from(_, _)
\* the least fixed point: L[A] is the set of terminal strings of length
\* <= MaxWord derivable from A
derivable_from(g, L) ==
  LET next == [A \in DOMAIN L |->
                 L[A] \cup UNION {expand(rule.right, L) :
                                    rule \in {r \in g.productions : r.left = A}}]
  IN  IF next = L THEN L ELSE derivable_from(g, next)

\* the terminal strings of length <= MaxWord derivable from the start symbol
Language(g) ==
  derivable_from(g, [A \in g.variables \cup {g.start} |-> {}])[g.start]

RECURSIVE generating_from(_, _)
\* the generating nonterminals: those with an empty production, or with a
\* production whose nonterminals are all generating
generating_from(productions, generating) ==
  LET next == generating \cup
                {rule.left : rule \in {r \in productions :
                    right_nonterm_set(r.right) \subseteq generating}}
  IN  IF next = generating THEN generating ELSE generating_from(productions, next)

-----------------------------------------------------------------------------
(* Claims about the passes, under Spec *)

\* C1: simplify(simplify(G)) has the start symbol and the productions of
\* simplify(G)
C1_SimplifyIdempotent ==
  ops = <<"simplify", "simplify">> =>
    cfg.start = input.start /\ cfg.productions = input.productions

\* C2: a terminal string (of length <= MaxWord, the empty one included) is
\* derivable from the start of remove_epsilon_rules(G) iff it is from the
\* start of G
C2_EpsilonPreservesLanguage ==
  last_op = "remove_epsilon_rules" => Language(cfg) = Language(input)

\* C3: in remove_epsilon_rules(G) an empty right-hand side occurs only on
\* the start symbol, and then the start symbol is no variable of G; and a
\* production A -> A of the result is a production of G, not a variant
C3_EpsilonOnlyOnNewStart ==
  last_op = "remove_epsilon_rules" =>
    /\ \A rule \in epsilon_rules(cfg) :
         rule.left = cfg.start /\ rule.left \notin input.variables
    /\ \A rule \in cfg.productions :
         rule.right = <<N(rule.left)>> => rule \in input.productions

\* C3 happens: G has two empty productions, a new start symbol keeps one,
\* and a variant of the form A -> A was dropped
C3_Witness ==
  /\ last_op = "remove_epsilon_rules"
  /\ Cardinality(epsilon_rules(input)) >= 2
  /\ epsilon_rules(cfg) # {}
  /\ Production("S", <<N("S"), N("S")>>) \in input.productions
  /\ Production("S", <<N("S")>>) \notin cfg.productions

\* C4: for G without empty productions, a terminal string (of length
\* <= MaxWord) is derivable from the start of remove_unit_rules(G) iff it is
\* from the start of G
C4_UnitPreservesLanguage ==
  (last_op = "remove_unit_rules" /\ epsilon_rules(input) = {}) =>
    Language(cfg) = Language(input)

\* C5: remove_unit_rules(G) has no production whose right-hand side is one
\* nonterminal, and has every production of G that is not such a production
C5_NoUnitRules ==
  last_op = "remove_unit_rules" =>
    /\ \A rule \in cfg.productions : ~is_unit(rule)
    /\ {rule \in input.productions : ~is_unit(rule)} \subseteq cfg.productions

\* C5 happens: G has the loop A -> A, a unit production into A, and a
\* production of A that was imported
C5_Witness ==
  /\ last_op = "remove_unit_rules"
  /\ Production("A", <<N("A")>>) \in input.productions
  /\ Production("S", <<N("A")>>) \in input.productions
  /\ Production("S", <<T("a")>>) \in cfg.productions \ input.productions

\* C8: when the start symbol S of G has the production S -> (empty),
\* remove_epsilon_rules(G) has a start symbol that is no variable of G, with
\* exactly the productions S' -> (empty) and S' -> S; otherwise the start
\* symbol is that of G
C8_NewStartIffStartHasEpsilon ==
  last_op = "remove_epsilon_rules" =>
    IF Production(input.start, <<>>) \in input.productions
    THEN /\ cfg.start \notin input.variables
         /\ {rule \in cfg.productions : rule.left = cfg.start}
              = {Production(cfg.start, <<>>),
                 Production(cfg.start, <<N(input.start)>>)}
    ELSE cfg.start = input.start

\* C9: remove_useless_rules(G) keeps every production of G whose left and
\* whose right-hand-side nonterminals are generating, a nonterminal with an
\* empty production being generating
C9_GeneratingRulesKept ==
  last_op = "remove_useless_rules" =>
    LET generating == generating_from(input.productions, {})
    IN  \A rule \in input.productions :
          (rule.left \in generating
             /\ right_nonterm_set(rule.right) \subseteq generating)
            => rule \in cfg.productions

-----------------------------------------------------------------------------
(* Claims about the generator, under SpecGen and FairSpecGen *)

\* the right-hand sides of the start symbol of the simplified grammar
start_alternatives ==
  {rule.right : rule \in {r \in simplified.productions : r.left = simplified.start}}

\* the generator is exhausted: a call returned None and the worklist is empty
Exhausted == pc = "returned" /\ ret = None /\ queue = <<>>

\* C6: every item Generator::next returns consists of terminals only and
\* has a length between min_len and max_len
C6_ItemsWithinBounds ==
  (pc = "returned" /\ ret.some) =>
    /\ \A i \in 1..Len(ret.item) : is_terminal(ret.item[i])
    /\ min_len <= Len(ret.item)
    /\ Len(ret.item) <= max_len

\* C6 happens: an item is returned with min_len >= 1 for a grammar whose
\* start symbol has an empty production, the simplified grammar keeping an
\* empty production on its new start symbol
C6_Witness ==
  /\ pc = "returned"
  /\ ret.some
  /\ min_len >= 1
  /\ Production(cfg.start, <<>>) \in cfg.productions
  /\ Production(simplified.start, <<>>) \in simplified.productions

\* C7: once a generator is constructed, the calls of Generator::next return
\* finitely many items and then None for ever, the worklist being empty; no
\* call loops for ever
C7_Terminates == <>[](pc = "cfg" \/ Exhausted)

\* C7 happens: a recursive grammar is exhausted after it returned two
\* different items
C7_Witness ==
  /\ Exhausted
  /\ Cardinality(yielded) >= 2
  /\ \E rule \in simplified.productions :
       rule.left = cfg.start /\ rule.left \in right_nonterm_set(rule.right)

\* C10: after Generator::new the worklist holds exactly the right-hand
\* sides of the start symbol of the simplified grammar; and a generator with
\* min_len = 0 for a grammar whose start symbol has an empty production
\* has returned the empty string when it is exhausted
C10_SeededFromSimplifiedStart ==
  /\ pc = "ready" =>
       /\ {queue[i] : i \in 1..Len(queue)} = start_alternatives
       /\ Len(queue) = Cardinality(start_alternatives)
  /\ (Exhausted /\ min_len = 0 /\ Production(cfg.start, <<>>) \in cfg.productions) =>
       <<>> \in yielded

\* the forms of the worklist
queued == {queue[i] : i \in 1..Len(queue)}

\* C11: the unreachable!() arm of Generator::next is never executed: every
\* nonterminal of a form on the worklist has an entry in the index, every
\* nonterminal on a right-hand side of the simplified grammar being the left
\* of one of its productions
C11_NoFatalBranch ==
  /\ pc # "panic"
  /\ \A form \in queued :
       \A i \in 1..Len(form) : is_nonterminal(form[i]) => form[i] \in DOMAIN rules
  /\ \A rule \in simplified.productions :
       right_nonterm_set(rule.right) \subseteq {r.left : r \in simplified.productions}

\* C11 happens: inside a call, the worklist holds a form with a nonterminal
\* that an expansion made (no right-hand side of the index)
C11_Witness ==
  /\ pc = "loop"
  /\ \E form \in queued :
       /\ \E i \in 1..Len(form) : is_nonterminal(form[i])
       /\ \A key \in DOMAIN rules :
            \A k \in 1..Len(rules[key]) : rules[key][k] # form

-----------------------------------------------------------------------------
(* A generator run to exhaustion, for the claim about the expansion order *)

\* one more occurrence of item in a multiset (a function from items to counts)
counted(bag, item) ==
  IF item \in DOMAIN bag
  THEN [bag EXCEPT ![item] = @ + 1]
  ELSE bag @@ (item :> 1)

RECURSIVE drain(_, _, _)
\* the items that Generator::next returns, call after call until None, from
\* the worklist q with expansion order l (index and bounds as constructed):
\* their multiset, and whether the run ended in the unreachable!() arm
drain(q, l, bag) ==
  IF q = <<>>
  THEN [bag |-> bag, panic |-> FALSE]
  ELSE LET next_item == Head(q)
           popped == Tail(q)
       IN  IF next_item = <<>>
           THEN drain(popped, l, counted(bag, next_item))
           ELSE IF Len(next_item) > max_len
           THEN drain(popped, l, bag)
           ELSE IF \A i \in 1..Len(next_item) : is_terminal(next_item[i])
           THEN IF long_enough(next_item, min_len)
                THEN drain(popped, l, counted(bag, next_item))
                ELSE drain(popped, l, bag)
           ELSE LET idx == expansion_idx(next_item, l)
                IN  IF next_item[idx] \in DOMAIN rules
                    THEN drain(popped \o expansions(next_item, idx,
                                                    rules[next_item[idx]]),
                               l, bag)
                    ELSE [bag |-> bag, panic |-> TRUE]

\* the worklist Generator::new built
seeded ==
  IF N(seed_start(cfg, simplified)) \in DOMAIN rules
  THEN rules[N(seed_start(cfg, simplified))]
  ELSE <<>>

=============================================================================
